---- MODULE Spec2Model ----
(***************************************************************************)
(* MonthDay (src/src/MonthDay.js): the month-day value type of js-joda,    *)
(* its factories (of, now, from, parse), accessors, equals, and the        *)
(* module-level default parser / query pair set by _init.                  *)
(*                                                                         *)
(* Values are tagged records [t |-> <type>, ...]; a MonthDay instance is a *)
(* reference Ref(i) into the heap, so that JavaScript object identity      *)
(* (===) and structural equality are distinct notions.                     *)
(***************************************************************************)
EXTENDS Integers, Sequences, FiniteSets, TLC

VARIABLES heap, PARSER, FROM, objs, call

vars == <<heap, PARSER, FROM, objs, call>>

\* ---------------------------------------------------------------- bounds
\* instances the heap may hold, and calls of _init (module load included)
MaxInstances == 2
MaxInits == 2

\* ---------------------------------------------------------------- values
Null == [t |-> "null"]
Undefined == [t |-> "undefined"]
Num(n) == [t |-> "num", v |-> n]
Bool(b) == [t |-> "bool", v |-> b]
Str(s) == [t |-> "str", s |-> s]
MonthEnum(n) == [t |-> "Month", v |-> n]
Ref(i) == [t |-> "MonthDay", v |-> i]
PlainObject == [t |-> "object"]
ZoneId(z) == [t |-> "ZoneId", id |-> z]
Formatter(i, pattern) == [t |-> "DateTimeFormatter", id |-> i, pattern |-> pattern]
Query(i) == [t |-> "TemporalQuery", id |-> i]
LocalDate(y, m, d) == [t |-> "temporal", ctor |-> "LocalDate", year |-> y,
                       hasMonth |-> TRUE, month |-> m, hasDay |-> TRUE, day |-> d]
TemporalOf(c, hm, m, hd, d) == [t |-> "temporal", ctor |-> c, year |-> 0,
                                hasMonth |-> hm, month |-> m, hasDay |-> hd, day |-> d]

\* results of an operation: a newly constructed instance, a returned value,
\* or a thrown error
New(obj) == [kind |-> "new", obj |-> obj]
Return(v) == [kind |-> "return", v |-> v]
Throw(err, msg) == [kind |-> "throw", err |-> err, msg |-> msg]

IsNull(x) == x.t \in {"null", "undefined"}

\* ------------------------------------------------- external collaborators
\* Month catalog: maximum day count of a month assuming a leap year
MonthMaxLength(m) == CASE m = 2 -> 29
                       [] m \in {4, 6, 9, 11} -> 30
                       [] OTHER -> 31

MonthNames == <<"JANUARY", "FEBRUARY", "MARCH", "APRIL", "MAY", "JUNE", "JULY",
                "AUGUST", "SEPTEMBER", "OCTOBER", "NOVEMBER", "DECEMBER">>

MonthName(m) == MonthNames[m]

\* Month.of(number): the catalog entry, or a range failure outside 1..12
MonthOf(month) == IF month.t = "num" /\ month.v \in 1..12
                  THEN Return(MonthEnum(month.v))
                  ELSE Throw("RangeError", <<"Invalid value for MonthOfYear: ", month>>)

\* ChronoField.DAY_OF_MONTH.checkValidValue / MONTH_OF_YEAR range
DayOfMonthInRange(d) == d.t = "num" /\ d.v \in 1..31
MonthOfYearInRange(m) == m.t = "num" /\ m.v \in 1..12

\* ------------------------------------------------------------ constructor
\* the constructor storing its arguments in each other's field
MonthDayCtor_Swapped(month, dayOfMonth) == [month |-> dayOfMonth, day |-> month]

MonthDayCtor(month, dayOfMonth) == [month |-> month, day |-> dayOfMonth]

\* -------------------------------------------------------------- factories
RECURSIVE of(_, _)

\* _ofMonthNumber with the length comparison off by one
_ofMonthNumber_OffByOne(month, dayOfMonth) ==
    IF IsNull(month) THEN Throw("NullPointerException", <<"month">>)
    ELSE IF ~DayOfMonthInRange(dayOfMonth)
         THEN Throw("RangeError", <<"Invalid value for DayOfMonth: ", dayOfMonth>>)
    ELSE IF dayOfMonth.v >= MonthMaxLength(month.v)
         THEN Throw("InvalidCombinationError",
                    <<"Illegal value for DayOfMonth field, value ", dayOfMonth.v,
                      " is not valid for month ", MonthName(month.v)>>)
    ELSE New(MonthDayCtor(month.v, dayOfMonth.v))

\* _ofMonthNumber comparing with the month's length before the range check
_ofMonthNumber_LengthFirst(month, dayOfMonth) ==
    IF IsNull(month) THEN Throw("NullPointerException", <<"month">>)
    ELSE IF dayOfMonth.t = "num" /\ dayOfMonth.v > MonthMaxLength(month.v)
         THEN Throw("InvalidCombinationError",
                    <<"Illegal value for DayOfMonth field, value ", dayOfMonth.v,
                      " is not valid for month ", MonthName(month.v)>>)
    ELSE IF ~DayOfMonthInRange(dayOfMonth)
         THEN Throw("RangeError", <<"Invalid value for DayOfMonth: ", dayOfMonth>>)
    ELSE New(MonthDayCtor(month.v, dayOfMonth.v))

\* _ofMonthNumber without the comparison with the month's length
_ofMonthNumber_NoLengthCheck(month, dayOfMonth) ==
    IF IsNull(month) THEN Throw("NullPointerException", <<"month">>)
    ELSE IF ~DayOfMonthInRange(dayOfMonth)
         THEN Throw("RangeError", <<"Invalid value for DayOfMonth: ", dayOfMonth>>)
    ELSE New(MonthDayCtor(month.v, dayOfMonth.v))

_ofMonthNumber(month, dayOfMonth) ==
    IF IsNull(month) THEN Throw("NullPointerException", <<"month">>)
    ELSE IF ~DayOfMonthInRange(dayOfMonth)
         THEN Throw("RangeError", <<"Invalid value for DayOfMonth: ", dayOfMonth>>)
    ELSE IF dayOfMonth.v > MonthMaxLength(month.v)
         THEN Throw("InvalidCombinationError",
                    <<"Illegal value for DayOfMonth field, value ", dayOfMonth.v,
                      " is not valid for month ", MonthName(month.v)>>)
    ELSE New(MonthDayCtor(month.v, dayOfMonth.v))

_ofNumberNumber(month, dayOfMonth) ==
    IF IsNull(month) THEN Throw("NullPointerException", <<"month">>)
    ELSE IF IsNull(dayOfMonth) THEN Throw("NullPointerException", <<"dayOfMonth">>)
    ELSE LET m == MonthOf(month)
         IN  IF m.kind = "throw" THEN m ELSE of(m.v, dayOfMonth)

of(a, b) == IF a.t = "Month" THEN _ofMonthNumber(a, b) ELSE _ofNumberNumber(a, b)

\* -------------------------------------------------------------------- now
IsLeapYear(y) == (y % 4 = 0) /\ ((y % 100 # 0) \/ (y % 400 = 0))

DaysInMonth(y, m) == IF m = 2 /\ ~IsLeapYear(y) THEN 28 ELSE MonthMaxLength(m)

IsCalendarDate(y, m, d) == m \in 1..12 /\ d \in 1..DaysInMonth(y, m)

NextDay(date) ==
    IF date.day < DaysInMonth(date.year, date.month)
    THEN LocalDate(date.year, date.month, date.day + 1)
    ELSE IF date.month < 12 THEN LocalDate(date.year, date.month + 1, 1)
    ELSE LocalDate(date.year + 1, 1, 1)

\* clocks: a fixed clock shows the same date at every reading, a system
\* clock may have moved on to the next day by a second reading
FixedClock(date) == [t |-> "Clock", kind |-> "fixed", zone |-> "UTC", date |-> date]
ClockSystemDefaultZone(today) == [t |-> "Clock", kind |-> "system", zone |-> "default", date |-> today]
ClockSystem(zone, today) == [t |-> "Clock", kind |-> "system", zone |-> zone.id, date |-> today]

\* LocalDate.now(clock), k-th reading of the clock within one call
LocalDateNow(clock, k) == IF k = 1 \/ clock.kind = "fixed" THEN clock.date
                          ELSE NextDay(clock.date)

\* _nowClock reading the clock once for the month and again for the day
_nowClock_ReadTwice(clock) ==
    IF IsNull(clock) THEN Throw("NullPointerException", <<"clock">>)
    ELSE of(MonthEnum(LocalDateNow(clock, 1).month), Num(LocalDateNow(clock, 2).day))

_nowClock(clock) ==
    IF IsNull(clock) THEN Throw("NullPointerException", <<"clock">>)
    ELSE of(MonthEnum(LocalDateNow(clock, 1).month), Num(LocalDateNow(clock, 1).day))

_now0(today) == _nowClock(ClockSystemDefaultZone(today))

_nowZoneId(zone, today) ==
    IF IsNull(zone) THEN Throw("NullPointerException", <<"zone">>)
    ELSE _nowClock(ClockSystem(zone, today))

\* now(...arguments); today is the date the system clock shows
now(args, today) ==
    IF Len(args) = 0 THEN _now0(today)
    ELSE IF Len(args) = 1 /\ args[1].t = "ZoneId" THEN _nowZoneId(args[1], today)
    ELSE _nowClock(args[1])

\* ------------------------------------------------------------------- from
\* TemporalAccessor.get(field): the field's value, or an extraction failure
\* of the accessor (field not supported, or its value not a legal one)
TemporalGet(temporal, field) ==
    IF field = "MONTH_OF_YEAR"
    THEN IF ~temporal.hasMonth
         THEN Throw("UnsupportedTemporalTypeException", <<"Unsupported field: ", field>>)
         ELSE IF ~MonthOfYearInRange(Num(temporal.month))
              THEN Throw("DateTimeException", <<"Invalid value for MonthOfYear: ", temporal.month>>)
              ELSE Return(Num(temporal.month))
    ELSE IF ~temporal.hasDay
         THEN Throw("UnsupportedTemporalTypeException", <<"Unsupported field: ", field>>)
         ELSE IF ~DayOfMonthInRange(Num(temporal.day))
              THEN Throw("DateTimeException", <<"Invalid value for DayOfMonth: ", temporal.day>>)
              ELSE Return(Num(temporal.day))

\* '' + temporal
TemporalToString(temporal) ==
    <<temporal.ctor, IF temporal.hasMonth THEN temporal.month ELSE -1,
      IF temporal.hasDay THEN temporal.day ELSE -1>>

\* temporal.constructor.name
ConstructorName(temporal) == temporal.ctor

\* unary plus applied to a string (ToNumber), printed by string concatenation
UnaryPlusToString(s) == CASE s = "" -> "0"
                          [] s = "Infinity" -> "Infinity"
                          [] OTHER -> "NaN"

\* the body of the try block of from
fromTry(temporal) ==
    LET m == TemporalGet(temporal, "MONTH_OF_YEAR")
        d == TemporalGet(temporal, "DAY_OF_MONTH")
    IN  IF m.kind = "throw" THEN m
        ELSE IF d.kind = "throw" THEN d
        ELSE of(m.v, d.v)

\* the message built by the catch block of from
fromMessage(temporal) ==
    <<"Unable to obtain MonthDay from TemporalAccessor: ", TemporalToString(temporal),
      ", type ", UnaryPlusToString(ConstructorName(temporal))>>

\* from without the catch block: what the try block raises propagates
from_NoCatch(temporal) ==
    IF IsNull(temporal) THEN Throw("NullPointerException", <<"temporal">>)
    ELSE IF temporal.t \notin {"temporal", "MonthDay"}
         THEN Throw("IllegalArgumentException", <<"temporal">>)
    ELSE IF temporal.t = "MonthDay" THEN Return(temporal)
    ELSE fromTry(temporal)

\* from without the instanceof short-circuit: a MonthDay is read like any
\* other accessor, and it exposes neither field
from_NoShortCircuit(temporal) ==
    IF IsNull(temporal) THEN Throw("NullPointerException", <<"temporal">>)
    ELSE IF temporal.t \notin {"temporal", "MonthDay"}
         THEN Throw("IllegalArgumentException", <<"temporal">>)
    ELSE IF temporal.t = "MonthDay"
         THEN Throw("ConversionError",
                    <<"Unable to obtain MonthDay from TemporalAccessor: ", temporal,
                      ", type ", "NaN">>)
    ELSE LET r == fromTry(temporal)
         IN  IF r.kind = "throw" THEN Throw("ConversionError", fromMessage(temporal))
             ELSE r

from(temporal) ==
    IF IsNull(temporal) THEN Throw("NullPointerException", <<"temporal">>)
    ELSE IF temporal.t \notin {"temporal", "MonthDay"}
         THEN Throw("IllegalArgumentException", <<"temporal">>)
    ELSE IF temporal.t = "MonthDay" THEN Return(temporal)
    ELSE LET r == fromTry(temporal)
         IN  IF r.kind = "throw" THEN Throw("ConversionError", fromMessage(temporal))
             ELSE r

\* the first error raised while from runs, "none" when nothing is raised
fromDetected(temporal) ==
    IF from(temporal).kind # "throw" THEN "none"
    ELSE IF temporal.t # "temporal" \/ from(temporal).err # "ConversionError"
         THEN from(temporal).err
    ELSE fromTry(temporal).err

\* ----------------------------------------------------- formatter / parser
Digits == <<"0", "1", "2", "3", "4", "5", "6", "7", "8", "9">>

IsDigit(c) == \E i \in 1..10 : Digits[i] = c

DigitValue(c) == (CHOOSE i \in 1..10 : Digits[i] = c) - 1

Literal(s) == [k |-> "literal", s |-> s]
Value(field, width) == [k |-> "value", field |-> field, width |-> width]

RECURSIVE DigitsToNumber(_)
DigitsToNumber(s) == IF s = <<>> THEN 0
                     ELSE 10 * DigitsToNumber(SubSeq(s, 1, Len(s) - 1)) + DigitValue(s[Len(s)])

RECURSIVE NumberToDigits(_, _)
NumberToDigits(n, width) == IF width = 0 THEN <<>>
                            ELSE Append(NumberToDigits(n \div 10, width - 1), Digits[(n % 10) + 1])

EmptyBuilder == TemporalOf("DateTimeBuilder", FALSE, 0, FALSE, 0)

PutField(builder, field, n) ==
    IF field = "MONTH_OF_YEAR" THEN [builder EXCEPT !.hasMonth = TRUE, !.month = n]
    ELSE [builder EXCEPT !.hasDay = TRUE, !.day = n]

\* the formatter engine parsing s from element i on; fields so far in builder
RECURSIVE ParseElements(_, _, _, _)
ParseElements(elems, i, s, builder) ==
    IF i > Len(elems)
    THEN IF s = <<>> THEN Return(builder) ELSE Throw("ParseError", <<"unparsed text">>)
    ELSE IF elems[i].k = "literal"
    THEN IF Len(s) >= Len(elems[i].s) /\ SubSeq(s, 1, Len(elems[i].s)) = elems[i].s
         THEN ParseElements(elems, i + 1, SubSeq(s, Len(elems[i].s) + 1, Len(s)), builder)
         ELSE Throw("ParseError", <<"literal expected">>)
    ELSE IF Len(s) >= elems[i].width /\ \A j \in 1..elems[i].width : IsDigit(s[j])
         THEN ParseElements(elems, i + 1, SubSeq(s, elems[i].width + 1, Len(s)),
                  PutField(builder, elems[i].field,
                           DigitsToNumber(SubSeq(s, 1, elems[i].width))))
         ELSE Throw("ParseError", <<"digits expected">>)

FieldOf(obj, field) == IF field = "MONTH_OF_YEAR" THEN obj.month ELSE obj.day

\* the formatter engine printing the fields of a MonthDay
RECURSIVE FormatElements(_, _, _)
FormatElements(elems, i, obj) ==
    IF i > Len(elems) THEN <<>>
    ELSE IF elems[i].k = "literal" THEN elems[i].s \o FormatElements(elems, i + 1, obj)
    ELSE NumberToDigits(FieldOf(obj, elems[i].field), elems[i].width)
            \o FormatElements(elems, i + 1, obj)

\* the pattern built by _init: '--' MM '-' dd
DefaultPattern == <<Literal(<<"-", "-">>), Value("MONTH_OF_YEAR", 2),
                    Literal(<<"-">>), Value("DAY_OF_MONTH", 2)>>

\* the callback registered by _init as MonthDay.FROM
QueryFrom(query, temporal) == from(temporal)

\* formatter.parse(text, query)
FormatterParse(formatter, text, query) ==
    LET parsed == ParseElements(formatter.pattern, 1, text.s, EmptyBuilder)
    IN  IF parsed.kind = "throw" THEN parsed ELSE QueryFrom(query, parsed.v)

\* formatter.format(monthDay)
FormatterFormat(formatter, obj) == FormatElements(formatter.pattern, 1, obj)

_parseStringFormatter(text, formatter, query) ==
    IF IsNull(text) THEN Throw("NullPointerException", <<"text">>)
    ELSE IF IsNull(formatter) THEN Throw("NullPointerException", <<"formatter">>)
    ELSE IF formatter.t # "DateTimeFormatter"
         THEN Throw("IllegalArgumentException", <<"formatter">>)
    ELSE FormatterParse(formatter, text, query)

_parseString(text, parser, query) == _parseStringFormatter(text, parser, query)

\* parse(...arguments); parser and query are the module's PARSER and MonthDay.FROM
parse(args, parser, query) ==
    IF Len(args) = 1 THEN _parseString(args[1], parser, query)
    ELSE _parseStringFormatter(args[1], args[2], query)

\* ---------------------------------------------------- accessors, equals
monthValue(h, this) == h[this.v].month

month(h, this) == MonthOf(Num(h[this.v].month)).v

dayOfMonth(h, this) == h[this.v].day

\* equals comparing the months only
equals_MonthOnly(h, this, obj) ==
    IF this = obj THEN TRUE
    ELSE IF obj.t = "MonthDay" THEN monthValue(h, this) = monthValue(h, obj)
    ELSE FALSE

equals(h, this, obj) ==
    IF this = obj THEN TRUE
    ELSE IF obj.t = "MonthDay"
         THEN monthValue(h, this) = monthValue(h, obj) /\ dayOfMonth(h, this) = dayOfMonth(h, obj)
    ELSE FALSE

\* ------------------------------------------------------------------ _init
\* the objects _init assigns to PARSER and to MonthDay.FROM; n pairs exist
_initParser(n) == Formatter(n + 1, DefaultPattern)

_initFrom(n) == Query(n + 1)

\* ------------------------------------------------------------------ state
\* heap    the MonthDay instances constructed so far; Ref(i) is heap[i]
\* PARSER  the module variable PARSER
\* FROM    the static MonthDay.FROM
\* objs    number of formatter / query pairs constructed so far
\* call    the last completed call: operation, arguments, outcome, the first
\*         error raised inside it, and whether it constructed an instance

\* module load: the bootstrap runs _init once before any operation is callable
Init == /\ heap = <<>>
        /\ PARSER = _initParser(0)
        /\ FROM = _initFrom(0)
        /\ objs = 1
        /\ call = [op |-> "load", args |-> <<>>, res |-> Return(Undefined),
                   detected |-> "none", fresh |-> FALSE]

Detected(r) == IF r.kind = "throw" THEN r.err ELSE "none"

\* a call completes: a constructed instance enters the heap
Finish(op, args, r, detected) ==
    /\ r.kind = "new" => Len(heap) < MaxInstances
    /\ heap' = IF r.kind = "new" THEN Append(heap, r.obj) ELSE heap
    /\ call' = [op |-> op, args |-> args,
                res |-> IF r.kind = "new" THEN Return(Ref(Len(heap) + 1)) ELSE r,
                detected |-> detected, fresh |-> (r.kind = "new")]
    /\ UNCHANGED <<PARSER, FROM, objs>>

\* ----------------------------------------------------------------- inputs
\* representative (month, day) pairs: each bound of each range, the valid
\* pairs around the end of February and April, and the impossible ones
RepPairs == {<<0, 29>>, <<13, 29>>, <<4, 0>>, <<4, 32>>, <<13, 32>>,
             <<2, 29>>, <<2, 30>>, <<4, 29>>, <<4, 30>>, <<4, 31>>}
AllPairs == (0..13) \X (0..32)
RepYears == {2020, 2021}
AllYears == {1900, 2000, 2020, 2021}

Refs == {Ref(i) : i \in 1..Len(heap)}

Zones == {ZoneId("UTC")}

RepDates == {LocalDate(y, p[1], p[2]) : y \in RepYears,
                 p \in {q \in RepPairs : q[1] \in 1..12 /\ q[2] \in 1..31}}
RepCalendarDates == {x \in RepDates : IsCalendarDate(x.year, x.month, x.day)}
AllCalendarDates == {x \in {LocalDate(y, m, d) : y \in AllYears, m \in 1..12, d \in 1..31} :
                        IsCalendarDate(x.year, x.month, x.day)}

\* temporal accessors that lack a field: a time, a year, a year-month
PartialTemporals == {TemporalOf("LocalTime", FALSE, 0, FALSE, 0),
                     TemporalOf("Year", FALSE, 0, FALSE, 0),
                     TemporalOf("YearMonth", TRUE, 2, FALSE, 0)}

Builder(p) == TemporalOf("DateTimeBuilder", TRUE, p[1], TRUE, p[2])

RepTemporals == RepCalendarDates \cup PartialTemporals \cup {Builder(p) : p \in RepPairs}
AllTemporals == AllCalendarDates \cup PartialTemporals \cup {Builder(p) : p \in AllPairs}

\* the text of (m, d) in the pattern --MM-dd
TextOf(m, d) == Str(<<"-", "-">> \o NumberToDigits(m, 2) \o <<"-">> \o NumberToDigits(d, 2))

Malformed == {Str(<<"1", "2", "-", "0", "3">>), Str(<<"-", "-", "1", "-", "3">>),
              Str(<<"-", "-", "1", "2", "-", "0", "3", "0">>)}

RepTexts == {TextOf(p[1], p[2]) : p \in RepPairs} \cup Malformed \cup {Null}
AllTexts == {TextOf(p[1], p[2]) : p \in AllPairs} \cup Malformed \cup {Null}

\* ------------------------------------------------------------------ calls
DoOf(a, b) == Finish("of", <<a, b>>, of(a, b), Detected(of(a, b)))

DoNow0(today) ==
    Finish("now", <<ClockSystemDefaultZone(today)>>, now(<<>>, today),
           Detected(now(<<>>, today)))

DoNowZoneId(zone, today) ==
    Finish("now", <<ClockSystem(zone, today)>>, now(<<zone>>, today),
           Detected(now(<<zone>>, today)))

DoNowClock(clock) ==
    Finish("now", <<clock>>, now(<<clock>>, Undefined), Detected(now(<<clock>>, Undefined)))

DoFrom(temporal) == Finish("from", <<temporal>>, from(temporal), fromDetected(temporal))

DoParse(text) ==
    Finish("parse", <<text, PARSER, FROM>>, parse(<<text>>, PARSER, FROM),
           Detected(parse(<<text>>, PARSER, FROM)))

DoParseFormatter(text, formatter) ==
    Finish("parse", <<text, formatter, FROM>>, parse(<<text, formatter>>, PARSER, FROM),
           Detected(parse(<<text, formatter>>, PARSER, FROM)))

\* ---------------------------------------------------------------- actions
OfNumbers == \E p \in RepPairs : DoOf(Num(p[1]), Num(p[2]))

OfNull == \E a \in {Null, Num(4)}, b \in {Null, Num(30)} : (a = Null \/ b = Null) /\ DoOf(a, b)

OfMonth == \E p \in RepPairs : p[1] \in 1..12 /\ DoOf(MonthEnum(p[1]), Num(p[2]))

Now0 == \E today \in RepCalendarDates : DoNow0(today)

NowZoneId == \E today \in RepCalendarDates, zone \in Zones : DoNowZoneId(zone, today)

NowClock == \E today \in RepCalendarDates : DoNowClock(FixedClock(today))

NowNull == DoNowClock(Null)

FromTemporal == \E temporal \in RepTemporals : DoFrom(temporal)

FromMonthDay == \E temporal \in Refs : DoFrom(temporal)

FromOther == \E temporal \in {Null, PlainObject} : DoFrom(temporal)

Parse == \E text \in RepTexts : DoParse(text)

ParseFormatter ==
    \E text \in {TextOf(4, 30), Null}, formatter \in {PARSER, Null, PlainObject} :
        DoParseFormatter(text, formatter)

MonthValue ==
    \E this \in Refs :
        Finish("monthValue", <<this>>, Return(Num(monthValue(heap, this))), "none")

Month ==
    \E this \in Refs :
        Finish("month", <<this>>, Return(month(heap, this)), "none")

DayOfMonth ==
    \E this \in Refs :
        Finish("dayOfMonth", <<this>>, Return(Num(dayOfMonth(heap, this))), "none")

Equals ==
    \E this \in Refs, obj \in Refs \cup {Null, PlainObject, LocalDate(2020, 2, 29)} :
        Finish("equals", <<this, obj>>, Return(Bool(equals(heap, this, obj))), "none")

\* the exported _init, called again after module load
ModuleInit ==
    /\ objs < MaxInits
    /\ PARSER' = _initParser(objs)
    /\ FROM' = _initFrom(objs)
    /\ objs' = objs + 1
    /\ call' = [op |-> "_init", args |-> <<>>, res |-> Return(Undefined),
                detected |-> "none", fresh |-> FALSE]
    /\ UNCHANGED heap

\* --------------------------------------------------------- specifications
\* every operation in any order, on the representative inputs
Next ==
    \/ OfNumbers
    \/ OfNull
    \/ OfMonth
    \/ Now0
    \/ NowZoneId
    \/ NowClock
    \/ NowNull
    \/ FromTemporal
    \/ FromMonthDay
    \/ FromOther
    \/ Parse
    \/ ParseFormatter
    \/ MonthValue
    \/ Month
    \/ DayOfMonth
    \/ Equals
    \/ ModuleInit

Spec == Init /\ [][Next]_vars

\* one factory call after module load (and any further _init), on every
\* month, day, date and text
Idle == call.op \in {"load", "_init"}

WideOfNumbers == Idle /\ \E p \in AllPairs : DoOf(Num(p[1]), Num(p[2]))

WideOfMonth == Idle /\ \E p \in AllPairs : p[1] \in 1..12 /\ DoOf(MonthEnum(p[1]), Num(p[2]))

WideNow0 == Idle /\ \E today \in AllCalendarDates : DoNow0(today)

WideNowZoneId == Idle /\ \E today \in AllCalendarDates, zone \in Zones : DoNowZoneId(zone, today)

WideNowClock == Idle /\ \E today \in AllCalendarDates : DoNowClock(FixedClock(today))

WideFrom == Idle /\ \E temporal \in AllTemporals : DoFrom(temporal)

WideParse == Idle /\ \E text \in AllTexts : DoParse(text)

WideModuleInit == Idle /\ ModuleInit

NextWide ==
    \/ WideOfNumbers
    \/ WideOfMonth
    \/ WideNow0
    \/ WideNowZoneId
    \/ WideNowClock
    \/ WideFrom
    \/ WideParse
    \/ WideModuleInit

SpecWide == Init /\ [][NextWide]_vars

\* ----------------------------------------------------------------- claims
\* the day counts of the months in a leap year
LeapYearLengths == <<31, 29, 31, 30, 31, 30, 31, 31, 30, 31, 30, 31>>

IsValidPair(obj) == /\ obj.month \in 1..12
                    /\ obj.day \in 1..31
                    /\ obj.day <= LeapYearLengths[obj.month]

ReturnsMonthDay(m, d) == /\ call.res.kind = "return"
                         /\ call.res.v.t = "MonthDay"
                         /\ monthValue(heap, call.res.v) = m
                         /\ dayOfMonth(heap, call.res.v) = d

Throws(err) == call.res.kind = "throw" /\ call.res.err = err

\* C1: for m in 1..12 and d in 1..31, of(m, d) succeeds exactly when d is at
\* most the leap-year length of month m, and then returns a value with
\* monthValue() = m and dayOfMonth() = d; otherwise it fails with
\* InvalidCombinationError
C1_OfNumbersValidity ==
    \A m \in 1..12, d \in 1..31 :
        (call.op = "of" /\ call.args = <<Num(m), Num(d)>>) =>
            IF d <= LeapYearLengths[m] THEN ReturnsMonthDay(m, d)
            ELSE Throws("InvalidCombinationError")

C1_Witness == /\ call.op = "of"
              /\ call.args = <<Num(2), Num(29)>>
              /\ ReturnsMonthDay(2, 29)

\* C2: a call of(m, d), m a number or a Month, with m outside 1..12 or d
\* outside 1..31 fails with RangeError, never with InvalidCombinationError
C2_RangeErrorFirst ==
    (/\ call.op = "of"
     /\ call.args[1].t \in {"num", "Month"}
     /\ call.args[2].t = "num"
     /\ \/ call.args[1].t = "num" /\ call.args[1].v \notin 1..12
        \/ call.args[2].v \notin 1..31)
    => Throws("RangeError")

C2_Witness == /\ call.op = "of"
              /\ call.args = <<Num(4), Num(32)>>
              /\ Throws("RangeError")

\* C3: every MonthDay instance that exists holds a valid (month, day) pair,
\* and no step changes the month or day of an existing instance
C3_AllValid == \A i \in 1..Len(heap) : IsValidPair(heap[i])

C3_Unmutated == /\ Len(heap') >= Len(heap)
                /\ \A i \in 1..Len(heap) : heap'[i] = heap[i]

C3_ValidAndImmutable == []C3_AllValid /\ [][C3_Unmutated]_vars

C3_Witness == /\ Len(heap) >= 2
              /\ heap[1] = [month |-> 2, day |-> 29]
              /\ call.op = "parse"
              /\ call.fresh

\* C4: the pair (PARSER, MonthDay.FROM) is set whenever parse can run, and
\* no step assigns it again
C4_PairSetOnce ==
    /\ [](~IsNull(PARSER) /\ ~IsNull(FROM))
    /\ [][PARSER' = PARSER /\ FROM' = FROM]_vars

\* C5: from(source), source a temporal accessor other than a MonthDay from
\* which reading the month or the day fails, fails with a ConversionError
\* whose message holds the source's description and the source's type name
C5_ConversionErrorNamesSource ==
    (/\ call.op = "from"
     /\ call.args[1].t = "temporal"
     /\ \/ TemporalGet(call.args[1], "MONTH_OF_YEAR").kind = "throw"
        \/ TemporalGet(call.args[1], "DAY_OF_MONTH").kind = "throw")
    => /\ Throws("ConversionError")
       /\ call.res.msg[2] = TemporalToString(call.args[1])
       /\ call.res.msg[4] = ConstructorName(call.args[1])

\* C6: a RangeError or InvalidCombinationError raised inside of, now or from
\* is the error the caller receives
C6_ValidationErrorsSurface ==
    (/\ call.op \in {"of", "now", "from"}
     /\ call.detected \in {"RangeError", "InvalidCombinationError"})
    => Throws(call.detected)

\* C6 as amended: of fails with RangeError on a month or day out of range
\* and with InvalidCombinationError on a day beyond the month's length; now
\* never replaces an error by a ConversionError; from turns a RangeError or
\* InvalidCombinationError raised inside it into a ConversionError, and
\* never into a value
C6_SurfaceOrWrapped ==
    /\ (/\ call.op = "of"
        /\ call.args[1].t = "num"
        /\ call.args[2].t = "num")
       => IF call.args[1].v \notin 1..12 \/ call.args[2].v \notin 1..31
          THEN Throws("RangeError")
          ELSE (call.args[2].v > LeapYearLengths[call.args[1].v])
                   => Throws("InvalidCombinationError")
    /\ call.op = "now" => ~Throws("ConversionError")
    /\ (/\ call.op = "from"
        /\ call.detected \in {"RangeError", "InvalidCombinationError"})
       => Throws("ConversionError")

C6_Witness == /\ call.op = "from"
              /\ call.detected = "InvalidCombinationError"
              /\ Throws("ConversionError")

\* C7: a.equals(b) is true exactly when b is a MonthDay with the same month
\* and day as a; it is reflexive and symmetric, and false for null and for
\* anything that is not a MonthDay
C7_EqualsStructural ==
    call.op = "equals" =>
        LET a == call.args[1]
            b == call.args[2]
            r == call.res.v.v
        IN  /\ b.t = "MonthDay" =>
                   /\ r = (heap[a.v].month = heap[b.v].month /\ heap[a.v].day = heap[b.v].day)
                   /\ r = equals(heap, b, a)
            /\ b.t # "MonthDay" => r = FALSE
            /\ a = b => r = TRUE

C7_Witness == /\ call.op = "equals"
              /\ call.args[2].t = "MonthDay"
              /\ call.args[1] # call.args[2]
              /\ call.res.v.v = TRUE

\* C8: for every valid (m, d), parse of the text --MM-dd of (m, d) returns a
\* value with monthValue() = m and dayOfMonth() = d, and formatting that
\* value with the default formatter gives the text back
C8_ParseRoundTrip ==
    \A m \in 1..12 :
        \A d \in 1..LeapYearLengths[m] :
            (call.op = "parse" /\ call.args[1] = TextOf(m, d)) =>
                /\ ReturnsMonthDay(m, d)
                /\ FormatterFormat(call.args[2], heap[call.res.v.v]) = call.args[1].s

C8_Witness == /\ call.op = "parse"
              /\ call.args[1] = Str(<<"-", "-", "1", "2", "-", "0", "3">>)
              /\ ReturnsMonthDay(12, 3)

\* C9: now with a clock (given, or built for the default or a named zone)
\* whose current date is (y, m, d) returns a new value with month m and day
\* d, the value of(m, d) constructs; it never fails
C9_NowFromClock ==
    (call.op = "now" /\ call.args[1].t = "Clock") =>
        LET date == call.args[1].date
        IN  /\ ReturnsMonthDay(date.month, date.day)
            /\ call.fresh
            /\ of(Num(date.month), Num(date.day)) = New(heap[call.res.v.v])

C9_Witness == /\ call.op = "now"
              /\ call.args[1].t = "Clock"
              /\ call.args[1].kind = "system"
              /\ call.args[1].date = LocalDate(2020, 2, 29)
              /\ ReturnsMonthDay(2, 29)

\* C10: from(x), x a MonthDay, returns x itself and constructs nothing
C10_FromIdentity ==
    (call.op = "from" /\ call.args[1].t = "MonthDay") =>
        /\ call.res = Return(call.args[1])
        /\ ~call.fresh

C10_Witness == /\ call.op = "from"
               /\ call.args[1].t = "MonthDay"
               /\ call.res = Return(call.args[1])
====
